---- MODULE Spec2Model ----
(***************************************************************************)
(* The schema-inference engine of scripts/what_is_the_schema.py            *)
(* (class JSONSchemaAnalyzer): the type classifier, the date-key           *)
(* normalizer, the recursive walker that fills the flat registry           *)
(* schema_structure, and the builder of the nested schema tree.            *)
(*                                                                         *)
(* Representation.                                                         *)
(*  - A Python str is a sequence of one-character strings: "a.b" is        *)
(*    <<"a", ".", "b">>.  Paths, keys, samples and date tokens are such    *)
(*    sequences, so that split, join, endswith and strptime act on         *)
(*    characters as they do in the code.                                   *)
(*  - A JSON value is a record whose field cls is the name of its Python   *)
(*    runtime class: NoneType, bool, int, float, str, list, dict.          *)
(*  - A Python dict with str keys (the tree and its nodes) is a function   *)
(*    whose domain is a set of character sequences.                        *)
(*  - The type tags returned by _get_type_name are TLA+ strings.           *)
(***************************************************************************)
EXTENDS Integers, Sequences, FiniteSets, TLC

(***************************************************************************)
(* Characters and strings                                                  *)
(***************************************************************************)

\* The characters of the model in code point order (the order of Python's
\* str comparison, which sorted() uses on the registry's paths).
Alphabet ==
    << " ", ",", "-", ".", "/",
       "0", "1", "2", "3", "4", "5", "6", "7", "8", "9",
       "A", "B", "C", "D", "E", "F", "G", "H", "I", "J", "K", "L", "M",
       "N", "O", "P", "Q", "R", "S", "T", "U", "V", "W", "X", "Y", "Z",
       "[", "]", "_",
       "a", "b", "c", "d", "e", "f", "g", "h", "i", "j", "k", "l", "m",
       "n", "o", "p", "q", "r", "s", "t", "u", "v", "w", "x", "y", "z" >>

CharRank(c) == CHOOSE i \in 1..Len(Alphabet) : Alphabet[i] = c

\* Python's a < b on str: lexicographic by code point, a proper prefix first.
RECURSIVE StrLessFrom(_, _, _)
StrLessFrom(a, b, i) ==
    IF i > Len(b) THEN FALSE
    ELSE IF i > Len(a) THEN TRUE
    ELSE IF a[i] = b[i] THEN StrLessFrom(a, b, i + 1)
    ELSE CharRank(a[i]) < CharRank(b[i])

StrLess(a, b) == StrLessFrom(a, b, 1)

DigitChars == << "0", "1", "2", "3", "4", "5", "6", "7", "8", "9" >>

IsDigit(c) == \E i \in 1..10 : DigitChars[i] = c

DigitVal(c) == (CHOOSE i \in 1..10 : DigitChars[i] = c) - 1

\* str(n) of a Python int.
RECURSIVE NatToStr(_)
NatToStr(n) ==
    IF n < 10 THEN << DigitChars[n + 1] >>
    ELSE NatToStr(n \div 10) \o << DigitChars[(n % 10) + 1] >>

IntToStr(n) == IF n < 0 THEN << "-" >> \o NatToStr(0 - n) ELSE NatToStr(n)

UpperChars ==
    << "A", "B", "C", "D", "E", "F", "G", "H", "I", "J", "K", "L", "M",
       "N", "O", "P", "Q", "R", "S", "T", "U", "V", "W", "X", "Y", "Z" >>

LowerChars ==
    << "a", "b", "c", "d", "e", "f", "g", "h", "i", "j", "k", "l", "m",
       "n", "o", "p", "q", "r", "s", "t", "u", "v", "w", "x", "y", "z" >>

\* str.lower() on one character (the regex of strptime is IGNORECASE).
Lower(c) ==
    IF \E i \in 1..26 : UpperChars[i] = c
    THEN LowerChars[CHOOSE i \in 1..26 : UpperChars[i] = c]
    ELSE c

\* The character of s at i, or "" past the end.
At(s, i) == IF i >= 1 /\ i <= Len(s) THEN s[i] ELSE ""

\* s.startswith(p, i - 1), ignoring case.
StartsAtNoCase(s, i, p) ==
    /\ i + Len(p) - 1 <= Len(s)
    /\ \A j \in 1..Len(p) : Lower(s[i + j - 1]) = p[j]

\* s.endswith(p)
EndsWith(s, p) ==
    /\ Len(s) >= Len(p)
    /\ \A j \in 1..Len(p) : s[Len(s) - Len(p) + j] = p[j]

\* s.split(sep) for a one-character separator: at least one part, empty
\* parts kept.
RECURSIVE SplitFrom(_, _, _, _)
SplitFrom(s, sep, i, cur) ==
    IF i > Len(s) THEN << cur >>
    ELSE IF s[i] = sep THEN << cur >> \o SplitFrom(s, sep, i + 1, << >>)
    ELSE SplitFrom(s, sep, i + 1, Append(cur, s[i]))

Split(s, sep) == SplitFrom(s, sep, 1, << >>)

\* sep.join(parts)
RECURSIVE Join(_, _)
Join(parts, sep) ==
    IF Len(parts) = 0 THEN << >>
    ELSE IF Len(parts) = 1 THEN parts[1]
    ELSE parts[1] \o << sep >> \o Join(Tail(parts), sep)

(***************************************************************************)
(* datetime.strptime, as far as _detect_date_pattern uses it               *)
(***************************************************************************)

\* A strptime format is a sequence of items: a directive ("%Y", "%m", "%d",
\* "%B"), a space (the regex \s+) or a literal character.

\* locale_time.f_month[1:] of the C locale, lower case.
MonthNames ==
    << << "j", "a", "n", "u", "a", "r", "y" >>,
       << "f", "e", "b", "r", "u", "a", "r", "y" >>,
       << "m", "a", "r", "c", "h" >>,
       << "a", "p", "r", "i", "l" >>,
       << "m", "a", "y" >>,
       << "j", "u", "n", "e" >>,
       << "j", "u", "l", "y" >>,
       << "a", "u", "g", "u", "s", "t" >>,
       << "s", "e", "p", "t", "e", "m", "b", "e", "r" >>,
       << "o", "c", "t", "o", "b", "e", "r" >>,
       << "n", "o", "v", "e", "m", "b", "e", "r" >>,
       << "d", "e", "c", "e", "m", "b", "e", "r" >> >>

\* The order in which the regex of %B lists the names: longest first
\* (sorted(to_convert, key=len, reverse=True), a stable sort).
MonthRegexOrder == << 9, 2, 11, 12, 1, 10, 8, 3, 4, 6, 7, 5 >>

DigitValOr0(c) == IF IsDigit(c) THEN DigitVal(c) ELSE 0

IsDigit19(c) == IsDigit(c) /\ c # "0"

\* One alternative of a directive's regex tried at a position: whether it
\* matches there, how many characters it takes, and the value it binds.
Alt(ok, len, key, val) == [ok |-> ok, len |-> len, key |-> key, val |-> val]

\* The number of consecutive whitespace characters of s from i.
RECURSIVE SpaceRun(_, _)
SpaceRun(s, i) == IF At(s, i) = " " THEN 1 + SpaceRun(s, i + 1) ELSE 0

\* The alternatives of one format item that match s at i, in the order the
\* regex engine tries them.
\*   %d  (?P<d>3[0-1]|[1-2]\d|0[1-9]|[1-9]| [1-9])
\*   %m  (?P<m>1[0-2]|0[1-9]|[1-9])
\*   %Y  (?P<Y>\d\d\d\d)
\*   %B  the month names, longest first
\*   " " \s+, greedy
Candidates(s, i, item) ==
    LET c1 == At(s, i)
        c2 == At(s, i + 1)
        v1 == DigitValOr0(c1)
        v2 == DigitValOr0(c2)
        alts ==
          IF item = "%d" THEN
            << Alt(c1 = "3" /\ c2 \in {"0", "1"}, 2, "d", 30 + v2),
               Alt(c1 \in {"1", "2"} /\ IsDigit(c2), 2, "d", 10 * v1 + v2),
               Alt(c1 = "0" /\ IsDigit19(c2), 2, "d", v2),
               Alt(IsDigit19(c1), 1, "d", v1),
               Alt(c1 = " " /\ IsDigit19(c2), 2, "d", v2) >>
          ELSE IF item = "%m" THEN
            << Alt(c1 = "1" /\ c2 \in {"0", "1", "2"}, 2, "m", 10 + v2),
               Alt(c1 = "0" /\ IsDigit19(c2), 2, "m", v2),
               Alt(IsDigit19(c1), 1, "m", v1) >>
          ELSE IF item = "%Y" THEN
            << Alt(\A j \in 0..3 : IsDigit(At(s, i + j)), 4, "Y",
                   1000 * v1 + 100 * v2 + 10 * DigitValOr0(At(s, i + 2))
                     + DigitValOr0(At(s, i + 3))) >>
          ELSE IF item = "%B" THEN
            [ j \in 1..12 |->
                Alt(StartsAtNoCase(s, i, MonthNames[MonthRegexOrder[j]]),
                    Len(MonthNames[MonthRegexOrder[j]]), "m",
                    MonthRegexOrder[j]) ]
          ELSE IF item = " " THEN
            [ j \in 1..SpaceRun(s, i) |->
                Alt(TRUE, SpaceRun(s, i) - j + 1, "", 0) ]
          ELSE
            << Alt(c1 = item, 1, "", 0) >>
    IN SelectSeq(alts, LAMBDA a : a.ok)

\* year, month, day before anything is found (_strptime: 1900, 1, 1).
TimeDefaults == [Y |-> 1900, m |-> 1, d |-> 1]

Bind(acc, c) ==
    IF c.key = "Y" THEN [acc EXCEPT !.Y = c.val]
    ELSE IF c.key = "m" THEN [acc EXCEPT !.m = c.val]
    ELSE IF c.key = "d" THEN [acc EXCEPT !.d = c.val]
    ELSE acc

\* format_regex.match(data_string): the first match of the items from k on
\* at position i, by backtracking over the alternatives in order.
RECURSIVE ReMatch(_, _, _, _, _)
RECURSIVE ReTry(_, _, _, _, _, _, _)
ReMatch(s, i, fmt, k, acc) ==
    IF k > Len(fmt) THEN [ok |-> TRUE, end |-> i, found |-> acc]
    ELSE ReTry(s, i, fmt, k, acc, Candidates(s, i, fmt[k]), 1)

ReTry(s, i, fmt, k, acc, cands, j) ==
    IF j > Len(cands) THEN [ok |-> FALSE, end |-> i, found |-> acc]
    ELSE LET r == ReMatch(s, i + cands[j].len, fmt, k + 1, Bind(acc, cands[j]))
         IN IF r.ok THEN r ELSE ReTry(s, i, fmt, k, acc, cands, j + 1)

IsLeap(y) == (y % 4 = 0) /\ ((y % 100 # 0) \/ (y % 400 = 0))

DaysInMonth(y, m) ==
    IF m = 2 THEN (IF IsLeap(y) THEN 29 ELSE 28)
    ELSE IF m \in {4, 6, 9, 11} THEN 30
    ELSE 31

\* datetime_date(year, month, day) accepts the values.
ValidDate(y, m, d) ==
    /\ y >= 1 /\ y <= 9999
    /\ m >= 1 /\ m <= 12
    /\ d >= 1 /\ d <= DaysInMonth(y, m)

\* datetime.strptime(s, fmt) returns (TRUE) or raises ValueError (FALSE):
\* the regex must match, no unconverted data may remain, and the date
\* must exist.
Strptime(s, fmt) ==
    LET r == ReMatch(s, 1, fmt, 1, TimeDefaults)
    IN /\ r.ok
       /\ r.end = Len(s) + 1
       /\ ValidDate(r.found.Y, r.found.m, r.found.d)

(***************************************************************************)
(* JSONSchemaAnalyzer._detect_date_pattern and _normalize_path             *)
(***************************************************************************)

\* date_patterns, in the dict's order.
date_patterns ==
    << [fmt |-> << "%Y", "-", "%m", "-", "%d" >>,
        readable |-> << "y", "y", "y", "y", "-", "m", "m", "-", "d", "d" >>],
       [fmt |-> << "%d", "-", "%m", "-", "%Y" >>,
        readable |-> << "d", "d", "-", "m", "m", "-", "y", "y", "y", "y" >>],
       [fmt |-> << "%Y", "/", "%m", "/", "%d" >>,
        readable |-> << "y", "y", "y", "y", "/", "m", "m", "/", "d", "d" >>],
       [fmt |-> << "%d", "/", "%m", "/", "%Y" >>,
        readable |-> << "d", "d", "/", "m", "m", "/", "y", "y", "y", "y" >>],
       [fmt |-> << "%Y", "%m", "%d" >>,
        readable |-> << "y", "y", "y", "y", "m", "m", "d", "d" >>],
       [fmt |-> << "%d", "%m", "%Y" >>,
        readable |-> << "d", "d", "m", "m", "y", "y", "y", "y" >>],
       [fmt |-> << "%B", " ", "%d", ",", " ", "%Y" >>,
        readable |-> << "m", "o", "n", "t", "h", " ", "d", "d", ",", " ", "y", "y", "y", "y" >>],
       [fmt |-> << "%d", " ", "%B", " ", "%Y" >>,
        readable |-> << "d", "d", " ", "m", "o", "n", "t", "h", " ", "y", "y", "y", "y" >>],
       [fmt |-> << "%Y", "-", "%m" >>,
        readable |-> << "y", "y", "y", "y", "-", "m", "m" >>],
       [fmt |-> << "%m", "-", "%Y" >>,
        readable |-> << "m", "m", "-", "y", "y", "y", "y" >>] >>

\* The first pattern, from index k on, that parses key.
RECURSIVE DetectFrom(_, _)
DetectFrom(key, k) ==
    IF k > Len(date_patterns) THEN [is_date |-> FALSE, pattern |-> << >>]
    ELSE IF Strptime(key, date_patterns[k].fmt)
         THEN [is_date |-> TRUE, pattern |-> date_patterns[k].readable]
         ELSE DetectFrom(key, k + 1)

_detect_date_pattern(key) == DetectFrom(key, 1)

\* DateKey with the slip of leaving the level out of the token.
DateKeyNoLevel(pattern, level) == pattern \o << "_", "0" >>

\* f"{pattern}_{level}"
DateKey(pattern, level) == pattern \o << "_" >> \o IntToStr(level)

\* The loop over parts: normalized_parts after the parts from k on.
RECURSIVE NormalizeParts(_, _, _)
NormalizeParts(parts, k, normalized_parts) ==
    IF k > Len(parts) THEN normalized_parts
    ELSE LET det == _detect_date_pattern(parts[k])
         IN NormalizeParts(parts, k + 1,
              Append(normalized_parts,
                     IF det.is_date
                     THEN DateKey(det.pattern, Len(normalized_parts))
                     ELSE parts[k]))

\* _normalize_path with the slip of leaving date-like parts as they are.
NormalizeNothing(path) == path

\* _normalize_path with the slip of joining the parts with '-'.
NormalizeJoinDash(path) ==
    IF path = << >> THEN path
    ELSE Join(NormalizeParts(Split(path, "."), 1, << >>), "-")

_normalize_path(path) ==
    IF path = << >> THEN path
    ELSE Join(NormalizeParts(Split(path, "."), 1, << >>), ".")

(***************************************************************************)
(* JSON values as the loader hands them over                               *)
(***************************************************************************)

JNull == [cls |-> "NoneType"]

JBool(b) == [cls |-> "bool", b |-> b]

JInt(n) == [cls |-> "int", n |-> n]

\* The float whole + tenths / 10, with tenths in 0..9.
JFloat(whole, tenths) == [cls |-> "float", whole |-> whole, tenths |-> tenths]

JStr(s) == [cls |-> "str", s |-> s]

\* A list: the sequence of its elements.
JList(el) == [cls |-> "list", el |-> el]

\* A dict: the sequence of its <<key, value>> pairs in insertion order, the
\* order in which .items() and .values() iterate.
JDict(kv) == [cls |-> "dict", kv |-> kv]

\* isinstance(value, classes); bool is a subclass of int.
IsInstance(value, classes) ==
    \/ value.cls \in classes
    \/ value.cls = "bool" /\ "int" \in classes

\* str(value) of a scalar: None, True/False, the decimal digits of an int,
\* the repr of a float with one decimal, a str itself.
PyStr(value) ==
    IF value.cls = "NoneType" THEN << "N", "o", "n", "e" >>
    ELSE IF value.cls = "bool" THEN
        (IF value.b THEN << "T", "r", "u", "e" >>
                    ELSE << "F", "a", "l", "s", "e" >>)
    ELSE IF value.cls = "int" THEN IntToStr(value.n)
    ELSE IF value.cls = "float" THEN
        IntToStr(value.whole) \o << "." >> \o IntToStr(value.tenths)
    ELSE value.s

(***************************************************************************)
(* JSONSchemaAnalyzer._get_type_name                                       *)
(***************************************************************************)

\* _get_type_name with the slip of testing int before bool.
GetTypeNameIntFirst(value) ==
    IF value.cls = "NoneType" THEN "null"
    ELSE IF IsInstance(value, {"int"}) THEN "integer"
    ELSE IF IsInstance(value, {"bool"}) THEN "boolean"
    ELSE IF IsInstance(value, {"float"}) THEN "float"
    ELSE IF IsInstance(value, {"str"}) THEN "string"
    ELSE IF IsInstance(value, {"list"}) THEN "array"
    ELSE IF IsInstance(value, {"dict"}) THEN "object"
    ELSE value.cls

_get_type_name(value) ==
    IF value.cls = "NoneType" THEN "null"
    ELSE IF IsInstance(value, {"bool"}) THEN "boolean"
    ELSE IF IsInstance(value, {"int"}) THEN "integer"
    ELSE IF IsInstance(value, {"float"}) THEN "float"
    ELSE IF IsInstance(value, {"str"}) THEN "string"
    ELSE IF IsInstance(value, {"list"}) THEN "array"
    ELSE IF IsInstance(value, {"dict"}) THEN "object"
    ELSE value.cls

(***************************************************************************)
(* JSONSchemaAnalyzer._analyze_value                                       *)
(***************************************************************************)

\* self.max_unique_samples
max_unique_samples == 10

\* The registry schema_structure is a function from normalized paths to
\* entries [type, samples]; samples is a Python set of str.
EmptyDict == << >>

\* RegisterPath with the slip of recording the type on every visit.
RegisterPathOverwrite(reg, normalized_path, value_type) ==
    IF normalized_path \in DOMAIN reg
    THEN [reg EXCEPT ![normalized_path].type = value_type]
    ELSE reg @@ (normalized_path :> [type |-> value_type, samples |-> {}])

\* if normalized_path not in self.schema_structure: create the entry.
RegisterPath(reg, normalized_path, value_type) ==
    IF normalized_path \in DOMAIN reg THEN reg
    ELSE reg @@ (normalized_path :> [type |-> value_type, samples |-> {}])

\* AddSample with the slip of leaving out the cap.
AddSampleNoCap(reg, normalized_path, value) ==
    IF ~IsInstance(value, {"dict", "list"})
    THEN [reg EXCEPT ![normalized_path].samples = @ \cup {PyStr(value)}]
    ELSE reg

\* AddSample with the slip of replacing a sample once the set is full.
AddSampleEvict(reg, normalized_path, value) ==
    IF IsInstance(value, {"dict", "list"}) THEN reg
    ELSE IF Cardinality(reg[normalized_path].samples) < max_unique_samples
    THEN [reg EXCEPT ![normalized_path].samples = @ \cup {PyStr(value)}]
    ELSE IF PyStr(value) \in reg[normalized_path].samples THEN reg
    ELSE [reg EXCEPT ![normalized_path].samples =
             (@ \ {CHOOSE s \in @ : TRUE}) \cup {PyStr(value)}]

\* if value is a scalar and the sample set is below the cap: add str(value).
AddSample(reg, normalized_path, value) ==
    IF /\ ~IsInstance(value, {"dict", "list"})
       /\ Cardinality(reg[normalized_path].samples) < max_unique_samples
    THEN [reg EXCEPT ![normalized_path].samples = @ \cup {PyStr(value)}]
    ELSE reg

\* new_path = f"{path}.{key}" if path else key
ChildPath(path, key) ==
    IF path # << >> THEN path \o << "." >> \o key ELSE key

\* f"{normalized_path}[]"
ItemPath(normalized_path) == normalized_path \o << "[", "]" >>

\* ListDescent with the slip of descending into every element.
ListDescentAll(value) == value.el

\* The elements of a list that the walker descends into: value[0] when the
\* list is not empty.
ListDescent(value) == IF Len(value.el) > 0 THEN << value.el[1] >> ELSE << >>

\* The registry after _analyze_value(path, value) has run on registry reg.
RECURSIVE _analyze_value(_, _, _)
RECURSIVE AnalyzeItems(_, _, _, _)
RECURSIVE AnalyzeElements(_, _, _, _)
_analyze_value(reg, path, value) ==
    LET normalized_path == _normalize_path(path)
        value_type == _get_type_name(value)
        reg1 == RegisterPath(reg, normalized_path, value_type)
        reg2 == AddSample(reg1, normalized_path, value)
    IN IF IsInstance(value, {"dict"})
       THEN AnalyzeItems(reg2, path, value.kv, 1)
       ELSE IF IsInstance(value, {"list"})
       THEN AnalyzeElements(reg2, ItemPath(normalized_path),
                            ListDescent(value), 1)
       ELSE reg2

\* for key, val in value.items(): self._analyze_value(new_path, val)
AnalyzeItems(reg, path, kv, k) ==
    IF k > Len(kv) THEN reg
    ELSE AnalyzeItems(_analyze_value(reg, ChildPath(path, kv[k][1]), kv[k][2]),
                      path, kv, k + 1)

\* The recursive calls on the elements the walker descends into.
AnalyzeElements(reg, item_path, els, k) ==
    IF k > Len(els) THEN reg
    ELSE AnalyzeElements(_analyze_value(reg, item_path, els[k]),
                         item_path, els, k + 1)

(***************************************************************************)
(* JSONSchemaAnalyzer.analyze_json                                         *)
(***************************************************************************)

\* FirstRecords with the slip of walking every record of the list.
FirstRecordsAll(json_data) == json_data.el

\* json_data[:1]
FirstRecords(json_data) ==
    IF Len(json_data.el) > 0 THEN << json_data.el[1] >> ELSE << >>

\* FirstValue with the slip of taking the mapping itself as the record.
FirstValueWhole(json_data) == json_data

\* next(iter(json_data.values())) on a dict that is not empty.
FirstValue(json_data) == json_data.kv[1][2]

\* The outcome of analyze_json(json_data) on registry reg: the exception it
\* raises ("none" when it returns) and the registry it leaves.
\*   list:  for record in json_data[:1]: self._analyze_value("", record)
\*   else:  json_data.values() raises AttributeError unless json_data is a
\*          dict; next(iter(...)) raises StopIteration on an empty dict.
analyze_json(reg, json_data) ==
    IF IsInstance(json_data, {"list"})
    THEN [exc |-> "none",
          reg |-> AnalyzeElements(reg, << >>, FirstRecords(json_data), 1)]
    ELSE IF ~IsInstance(json_data, {"dict"})
    THEN [exc |-> "AttributeError", reg |-> reg]
    ELSE IF Len(json_data.kv) = 0
    THEN [exc |-> "StopIteration", reg |-> reg]
    ELSE [exc |-> "none",
          reg |-> _analyze_value(reg, << >>, FirstValue(json_data))]

(***************************************************************************)
(* JSONSchemaAnalyzer._build_nested_schema                                 *)
(***************************************************************************)

\* The keys of the dicts that make up a node of the tree.
k_type == << "t", "y", "p", "e" >>

k_examples == << "e", "x", "a", "m", "p", "l", "e", "s" >>

k_properties == << "p", "r", "o", "p", "e", "r", "t", "i", "e", "s" >>

k_items == << "i", "t", "e", "m", "s" >>

ArrayMarker == << "[", "]" >>

\* d.update(e)
DictUpdate(d, e) ==
    [k \in DOMAIN d \cup DOMAIN e |-> IF k \in DOMAIN e THEN e[k] ELSE d[k]]

\* The leaf built when no path part is left: {'type': ...} and, when the
\* sample set is not empty, 'examples': list(samples).  list() enumerates
\* the set in hash order, which the language does not fix: examples is
\* recorded as the set of its elements.
LeafNode(value) ==
    IF value.samples # {}
    THEN (k_type :> value.type) @@ (k_examples :> value.samples)
    ELSE (k_type :> value.type)

RECURSIVE create_nested_dict(_, _)
create_nested_dict(path_parts, value) ==
    IF Len(path_parts) = 0 THEN LeafNode(value)
    ELSE LET current_part == path_parts[1]
             remaining_parts == Tail(path_parts)
         IN IF EndsWith(current_part, ArrayMarker)
            THEN SubSeq(current_part, 1, Len(current_part) - 2) :>
                   ((k_type :> "array") @@
                    (k_items :> create_nested_dict(remaining_parts, value)))
            ELSE LET nested == create_nested_dict(remaining_parts, value)
                 IN current_part :>
                      (IF Len(remaining_parts) = 0 THEN nested
                       ELSE (k_type :> "object") @@ (k_properties :> nested))

\* The body of the merge loop for one key of current_dict.
MergeEntry(result, key, value) ==
    IF key \in DOMAIN result
    THEN IF k_properties \in DOMAIN result[key] /\ k_properties \in DOMAIN value
         THEN [result EXCEPT ![key][k_properties] =
                  DictUpdate(@, value[k_properties])]
         ELSE [result EXCEPT ![key] = DictUpdate(@, value)]
    ELSE result @@ (key :> value)

\* for key, value in current_dict.items(): merge into result.
RECURSIVE MergeDict(_, _, _)
MergeDict(result, current_dict, keys) ==
    IF keys = {} THEN result
    ELSE LET key == CHOOSE k \in keys : \A o \in keys : k = o \/ StrLess(k, o)
         IN MergeDict(MergeEntry(result, key, current_dict[key]),
                      current_dict, keys \ {key})

\* sorted() on the paths of the registry.
RECURSIVE SortedPaths(_)
SortedPaths(paths) ==
    IF paths = {} THEN << >>
    ELSE LET first == CHOOSE p \in paths :
                         \A o \in paths : p = o \/ StrLess(p, o)
         IN << first >> \o SortedPaths(paths \ {first})

\* The loop over sorted(self.schema_structure.items()) from index k on.
RECURSIVE BuildFrom(_, _, _, _)
BuildFrom(reg, order, k, result) ==
    IF k > Len(order) THEN result
    ELSE LET path == order[k]
         IN IF path = << >>
            THEN BuildFrom(reg, order, k + 1, result)
            ELSE LET current_dict ==
                       create_nested_dict(Split(path, "."), reg[path])
                 IN BuildFrom(reg, order, k + 1,
                              MergeDict(result, current_dict,
                                        DOMAIN current_dict))

_build_nested_schema(reg) ==
    BuildFrom(reg, SortedPaths(DOMAIN reg), 1, EmptyDict)

(***************************************************************************)
(* The documents of the model                                              *)
(***************************************************************************)

\* The fields a record is made of: <<key, value>>.  They cover scalars of
\* every class, lists, nested objects, objects keyed by dates, and keys
\* that are empty, contain the separator or end in the array marker.
f_user ==
    << << "u", "s", "e", "r" >>,
       JDict(<< << << "i", "d" >>, JInt(1) >>,
                 << << "n", "a", "m", "e" >>, JStr(<< "A", "l" >>) >> >>) >>

f_tags ==
    << << "t", "a", "g", "s" >>,
       JList(<< JStr(<< "x" >>), JStr(<< "y" >>) >>) >>

f_items ==
    << << "i", "t", "e", "m", "s" >>,
       JList(<< JInt(1), JInt(2), JInt(3) >>) >>

f_matches ==
    << << "m", "a", "t", "c", "h", "e", "s" >>,
       JDict(<< << << "2", "0", "2", "1", "-", "1", "1", "-", "0", "8" >>, JInt(3) >>,
                 << << "2", "0", "2", "1", "-", "1", "1", "-", "0", "9" >>, JInt(5) >> >>) >>

f_a ==
    << << "a" >>,
       JDict(<< << << "b" >>, JDict(<< << << "c" >>, JInt(1) >>,
                           << << "d" >>, JInt(2) >> >>) >>,
                 << << "c" >>, JInt(2) >> >>) >>

f_rows ==
    << << "r", "o", "w", "s" >>,
       JList(<< JDict(<< << << "x" >>, JInt(1) >>,
          << << "y" >>, JStr(<< "x" >>) >> >>) >>) >>

f_day_object ==
    << << "2", "0", "2", "1", "-", "1", "1", "-", "0", "8" >>,
       JDict(<< << << "b" >>, JInt(1) >>,
                 << << "c" >>, JInt(2) >> >>) >>

f_day_list ==
    << << "2", "0", "2", "1", "-", "1", "1", "-", "1", "0" >>,
       JList(<< JBool(TRUE) >>) >>

f_dotted ==
    << << "a", ".", "b" >>,
       JStr(<< "x" >>) >>

f_bracketed ==
    << << "a", "[", "]" >>,
       JFloat(1, 5) >>

f_empty_key ==
    << << >>,
       JNull >>

Fields ==
    << f_user,
       f_tags,
       f_items,
       f_matches,
       f_a,
       f_rows,
       f_day_object,
       f_day_list,
       f_dotted,
       f_bracketed,
       f_empty_key >>

\* The record that follows the first one in a list: a shape of its own.
k_other == << "o", "t", "h", "e", "r" >>

TailRecord == JDict(<< << k_other, JBool(FALSE) >> >>)

\* Documents that are a bare scalar.
TopScalars == << JInt(42), JStr(<< "x" >>), JNull >>

\* The most fields a record of the model has.
MaxFields == 2

\* The most records a top-level list of the model has.
MaxRecords == 2

\* The choices of fields for a record: up to MaxFields fields of Fields with
\* distinct keys, in any order.
FieldChoices ==
    UNION { { s \in [1..k -> 1..Len(Fields)] :
                \A i, j \in 1..k :
                    i # j => Fields[s[i]][1] # Fields[s[j]][1] }
            : k \in 0..MaxFields }

RecordOf(s) == JDict([i \in 1..Len(s) |-> Fields[s[i]]])

\* A document is chosen by its form, the fields of its first record and
\* the number n of its records:
\*   list    [RecordOf(fields), TailRecord, ...] with n records
\*   record  RecordOf(fields) itself, a top-level mapping
\*   scalar  TopScalars[fields[1]]
DocChoices ==
    { [form |-> "list", fields |-> << >>, n |-> 0] }
    \cup { [form |-> "list", fields |-> s, n |-> n] :
             s \in FieldChoices, n \in 1..MaxRecords }
    \cup { [form |-> "record", fields |-> s, n |-> 1] : s \in FieldChoices }
    \cup { [form |-> "scalar", fields |-> << i >>, n |-> 0] :
             i \in 1..Len(TopScalars) }

MakeDoc(c) ==
    IF c.form = "list"
    THEN JList([i \in 1..c.n |->
                  IF i = 1 THEN RecordOf(c.fields) ELSE TailRecord])
    ELSE IF c.form = "record" THEN RecordOf(c.fields)
    ELSE TopScalars[c.fields[1]]

(***************************************************************************)
(* The state machine                                                       *)
(***************************************************************************)

VARIABLES
    json_data,         \* the document handed to analyze_json (JNull: none yet)
    schema_structure,  \* self.schema_structure, the flat registry
    nested_schema,     \* the tree last returned by _build_nested_schema
    raised,            \* the exception analyze_json ended with, or "none"
    pc,                \* start, loaded, analyzed, raised, built
    fed,               \* history: the scalars handed to _analyze_value directly
    fed_order,         \* history: those scalars in the order of their first call
    arg_path,          \* the path handed to a direct call of _normalize_path
    ret_path,          \* what that call returned
    arg_value,         \* the value handed to a direct call of _get_type_name
    ret_type           \* what that call returned

vars == << json_data, schema_structure, nested_schema, raised, pc, fed,
           fed_order, arg_path, ret_path, arg_value, ret_type >>

\* The arguments and results of the direct calls of the two pure methods.
calls == << arg_path, ret_path, arg_value, ret_type >>

\* JSONSchemaAnalyzer.__init__: an empty registry.
Init ==
    /\ json_data = JNull
    /\ schema_structure = EmptyDict
    /\ nested_schema = EmptyDict
    /\ raised = "none"
    /\ pc = "start"
    /\ fed = {}
    /\ fed_order = << >>
    /\ arg_path = << >>
    /\ ret_path = << >>
    /\ arg_value = JNull
    /\ ret_type = ""

\* analyze_json_file: data = json.load(f), any document of the model.
LoadDocument ==
    /\ pc = "start"
    /\ \E c \in DocChoices : json_data' = MakeDoc(c)
    /\ pc' = "loaded"
    /\ UNCHANGED << schema_structure, nested_schema, raised, fed, fed_order >>
    /\ UNCHANGED calls

\* analyze_json_file: analyzer.analyze_json(data) on the fresh analyzer.  An
\* exception leaves analyze_json_file.
AnalyzeJson ==
    /\ pc = "loaded"
    /\ LET out == analyze_json(schema_structure, json_data)
       IN /\ schema_structure' = out.reg
          /\ raised' = out.exc
          /\ pc' = IF out.exc = "none" THEN "analyzed" ELSE "raised"
    /\ UNCHANGED << json_data, nested_schema, fed, fed_order >>
    /\ UNCHANGED calls

\* print_schema: nested_schema = self._build_nested_schema()
PrintSchema ==
    /\ pc = "analyzed"
    /\ nested_schema' = _build_nested_schema(schema_structure)
    /\ pc' = "built"
    /\ UNCHANGED << json_data, schema_structure, raised, fed, fed_order >>
    /\ UNCHANGED calls

Next == LoadDocument \/ AnalyzeJson \/ PrintSchema

Spec == Init /\ [][Next]_vars

(***************************************************************************)
(* Direct calls of _analyze_value on one analyzer                          *)
(***************************************************************************)

\* The ints handed over are 0 .. NumInts - 1.
NumInts == 11

\* The strs handed over are the decimal digits of 0 .. NumStrs - 1.
NumStrs == 2

\* The raw paths of the calls: two dates under one key, which normalize to
\* one and the same registry path.
WalkPaths ==
    << << "m", ".", "2", "0", "2", "1", "-", "1", "1", "-", "0", "8" >>,
       << "m", ".", "2", "0", "2", "1", "-", "1", "1", "-", "0", "9" >> >>

WalkTarget == _normalize_path(WalkPaths[1])

k_k == << "k" >>

\* What a call hands over: an int, a str of digits, a list or a dict.
FeedChoices ==
    { << "int", n >> : n \in 0..(NumInts - 1) }
    \cup { << "str", n >> : n \in 0..(NumStrs - 1) }
    \cup { << "list", 0 >>, << "dict", 0 >> }

FeedValue(d) ==
    IF d[1] = "int" THEN JInt(d[2])
    ELSE IF d[1] = "str" THEN JStr(IntToStr(d[2]))
    ELSE IF d[1] = "list" THEN JList(<< JStr(<< "x" >>) >>)
    ELSE JDict(<< << k_k, JNull >> >>)

\* self._analyze_value(WalkPaths[i], FeedValue(d)).  The ints arrive in
\* ascending order (an int may be repeated); the other values at any time.
Walk(i, d) ==
    /\ d[1] = "int" => (d[2] = 0 \/ << "int", d[2] - 1 >> \in fed)
    /\ schema_structure' =
          _analyze_value(schema_structure, WalkPaths[i], FeedValue(d))
    /\ fed' = IF d[1] \in {"int", "str"} THEN fed \cup {d} ELSE fed
    /\ pc' = "analyzed"
    /\ UNCHANGED << json_data, nested_schema, raised, fed_order >>
    /\ UNCHANGED calls

AnalyzeValue == \E i \in 1..Len(WalkPaths), d \in FeedChoices : Walk(i, d)

NextWalk == AnalyzeValue \/ PrintSchema

SpecWalk == Init /\ [][NextWalk]_vars

(***************************************************************************)
(* Direct calls of _analyze_value with scalars, their order recorded       *)
(***************************************************************************)

\* The scalars a call hands over.
ScalarChoices == { d \in FeedChoices : d[1] \in {"int", "str"} }

\* self._analyze_value(WalkPaths[i], FeedValue(d)) for a scalar.  The ints
\* arrive in ascending order (an int may be repeated), the strs at any time;
\* fed_order records each scalar when it is handed over for the first time.
WalkScalar(i, d) ==
    /\ d[1] = "int" => (d[2] = 0 \/ << "int", d[2] - 1 >> \in fed)
    /\ schema_structure' =
          _analyze_value(schema_structure, WalkPaths[i], FeedValue(d))
    /\ fed' = fed \cup {d}
    /\ fed_order' = IF d \in fed THEN fed_order ELSE Append(fed_order, d)
    /\ pc' = "analyzed"
    /\ UNCHANGED << json_data, nested_schema, raised >>
    /\ UNCHANGED calls

AnalyzeScalar ==
    \E i \in 1..Len(WalkPaths), d \in ScalarChoices : WalkScalar(i, d)

NextSamples == AnalyzeScalar

SpecSamples == Init /\ [][NextSamples]_vars

(***************************************************************************)
(* Direct calls of _normalize_path                                         *)
(***************************************************************************)

\* The segments the paths are made of: one date for each of the ten
\* patterns, strings that are not dates (an impossible day, bare numbers, a
\* plain name, the empty segment), a token _normalize_path itself produces,
\* and segments that carry the array marker.
Segments ==
    << << "2", "0", "2", "1", "-", "1", "1", "-", "0", "8" >>,
       << "0", "8", "-", "1", "1", "-", "2", "0", "2", "1" >>,
       << "2", "0", "2", "1", "/", "1", "1", "/", "0", "8" >>,
       << "0", "8", "/", "1", "1", "/", "2", "0", "2", "1" >>,
       << "2", "0", "2", "1", "1", "1", "0", "8" >>,
       << "3", "1", "1", "2", "2", "0", "2", "1" >>,
       << "M", "a", "y", " ", "0", "8", ",", " ", "2", "0", "2", "1" >>,
       << "0", "8", " ", "m", "a", "y", " ", "2", "0", "2", "1" >>,
       << "2", "0", "2", "1", "-", "1", "1" >>,
       << "1", "1", "-", "2", "0", "2", "1" >>,
       << "2", "0", "2", "1", "-", "0", "2", "-", "3", "0" >>,
       << "2", "0", "2", "1" >>,
       << "1", "1" >>,
       << "a" >>,
       << >>,
       << "y", "y", "y", "y", "-", "m", "m", "-", "d", "d", "_", "0" >>,
       << "2", "0", "2", "1", "-", "1", "1", "-", "0", "8", "[", "]" >>,
       << "a", "[", "]" >> >>

\* The most segments a path of the model has.
MaxDepth == 2

\* A path is chosen by the indices of its segments; no index: the empty path.
PathChoices == UNION { [1..k -> 1..Len(Segments)] : k \in 0..MaxDepth }

MakePath(c) ==
    IF Len(c) = 0 THEN << >> ELSE Join([i \in 1..Len(c) |-> Segments[c[i]]], ".")

\* The values walked at the path: a scalar, a list, and a dict whose key is
\* a date and whose value is a list.
PathValues ==
    << JInt(7),
       JList(<< JInt(1) >>),
       JDict(<< << Segments[1], JList(<< JNull >>) >> >>) >>

\* A fresh analyzer and any path of the model.
InitNormalize ==
    /\ json_data = JNull
    /\ schema_structure = EmptyDict
    /\ nested_schema = EmptyDict
    /\ raised = "none"
    /\ pc = "start"
    /\ fed = {}
    /\ fed_order = << >>
    /\ \E c \in PathChoices : arg_path = MakePath(c)
    /\ ret_path = << >>
    /\ arg_value = JNull
    /\ ret_type = ""

\* ret_path = self._normalize_path(arg_path)
NormalizePath ==
    /\ pc = "start"
    /\ ret_path' = _normalize_path(arg_path)
    /\ pc' = "normalized"
    /\ UNCHANGED << json_data, schema_structure, nested_schema, raised, fed,
                    fed_order, arg_path, arg_value, ret_type >>

\* self._analyze_value(arg_path, PathValues[i])
AnalyzePath ==
    /\ pc = "normalized"
    /\ \E i \in 1..Len(PathValues) :
          schema_structure' =
              _analyze_value(schema_structure, arg_path, PathValues[i])
    /\ pc' = "analyzed"
    /\ UNCHANGED << json_data, nested_schema, raised, fed, fed_order >>
    /\ UNCHANGED calls

NextNormalize == NormalizePath \/ AnalyzePath

SpecNormalize == InitNormalize /\ [][NextNormalize]_vars

(***************************************************************************)
(* Direct calls of _get_type_name                                          *)
(***************************************************************************)

\* The largest number the values of the model are made of.
MaxValue == 9

\* A value is chosen by its class and a number n.
ValueChoices ==
    { << "NoneType", 0 >>, << "bool", 0 >>, << "bool", 1 >>, << "int", 42 >> }
    \cup { << "int", n >> : n \in (0 - MaxValue)..MaxValue }
    \cup { << c, n >> : c \in {"float", "half", "str", "list", "dict"},
                        n \in 0..MaxValue }
    \cup { << "word", n >> : n \in 1..3 }

\* None; False, True; the int n; the floats n.0 and n.5; the str of the
\* digits of n; the list [1, ..., n]; the dict {"1": True, ..., "n": True};
\* the strs "True", "None" and "".
MakeValue(d) ==
    IF d[1] = "NoneType" THEN JNull
    ELSE IF d[1] = "bool" THEN JBool(d[2] = 1)
    ELSE IF d[1] = "int" THEN JInt(d[2])
    ELSE IF d[1] = "float" THEN JFloat(d[2], 0)
    ELSE IF d[1] = "half" THEN JFloat(d[2], 5)
    ELSE IF d[1] = "str" THEN JStr(IntToStr(d[2]))
    ELSE IF d[1] = "list" THEN JList([i \in 1..d[2] |-> JInt(i)])
    ELSE IF d[1] = "dict"
         THEN JDict([i \in 1..d[2] |-> << IntToStr(i), JBool(TRUE) >>])
    ELSE IF d[2] = 1 THEN JStr(<< "T", "r", "u", "e" >>)
    ELSE IF d[2] = 2 THEN JStr(<< "N", "o", "n", "e" >>)
    ELSE JStr(<< >>)

\* Any value of the model.
InitClassify ==
    /\ json_data = JNull
    /\ schema_structure = EmptyDict
    /\ nested_schema = EmptyDict
    /\ raised = "none"
    /\ pc = "start"
    /\ fed = {}
    /\ fed_order = << >>
    /\ arg_path = << >>
    /\ ret_path = << >>
    /\ \E d \in ValueChoices : arg_value = MakeValue(d)
    /\ ret_type = ""

\* ret_type = JSONSchemaAnalyzer._get_type_name(arg_value)
GetTypeName ==
    /\ pc = "start"
    /\ ret_type' = _get_type_name(arg_value)
    /\ pc' = "classified"
    /\ UNCHANGED << json_data, schema_structure, nested_schema, raised, fed,
                    fed_order, arg_path, ret_path, arg_value >>

NextClassify == GetTypeName

SpecClassify == InitClassify /\ [][NextClassify]_vars

(***************************************************************************)
(* Claims                                                                  *)
(***************************************************************************)

k_user == << "u", "s", "e", "r" >>

k_tags == << "t", "a", "g", "s" >>

k_id == << "i", "d" >>

k_name == << "n", "a", "m", "e" >>

\* The document {"user": {"id": 1, "name": "Al"}, "tags": ["x", "y"]}.
EndToEndDoc == JDict(<< f_user, f_tags >>)

IdNode == (k_type :> "integer") @@ (k_examples :> { << "1" >> })

NameNode == (k_type :> "string") @@ (k_examples :> { << "A", "l" >> })

UserNode ==
    (k_type :> "object") @@
    (k_properties :> ((k_id :> IdNode) @@ (k_name :> NameNode)))

TagsNode ==
    (k_type :> "array") @@
    (k_items :> ((k_type :> "string") @@ (k_examples :> { << "x" >> })))

\* The first record of a top-level list is the end-to-end document.
FirstRecordIsEndToEnd ==
    /\ json_data.cls = "list"
    /\ Len(json_data.el) >= 1
    /\ json_data.el[1] = EndToEndDoc

\* C1, as stated: given the top-level mapping {"user": ..., "tags": ...},
\* the built tree has `user`, an object with properties id (integer,
\* example "1") and name (string, example "Al"), and `tags`, an array whose
\* items are string with example "x".
C1_EndToEndAsStated ==
    (pc = "built" /\ json_data = EndToEndDoc) =>
        /\ k_user \in DOMAIN nested_schema
        /\ k_tags \in DOMAIN nested_schema
        /\ nested_schema[k_user] = UserNode
        /\ nested_schema[k_tags] = TagsNode

\* C1, amended: given the top-level mapping, analyze_json walks only its
\* first value {"id": 1, "name": "Al"}, and the built tree has exactly the
\* keys id (integer, example "1") and name (string, example "Al"); the tree
\* with `user` and `tags` is built when the mapping is the first record of
\* a top-level list.
C1_EndToEnd ==
    /\ (pc = "built" /\ json_data = EndToEndDoc) =>
          nested_schema = (k_id :> IdNode) @@ (k_name :> NameNode)
    /\ (pc = "built" /\ FirstRecordIsEndToEnd) =>
          nested_schema = (k_user :> UserNode) @@ (k_tags :> TagsNode)

C1_Witness ==
    /\ pc = "built"
    /\ json_data = EndToEndDoc
    /\ k_id \in DOMAIN nested_schema

Walked == pc \in {"analyzed", "built"}

\* The strs of the scalars handed to _analyze_value so far.
FedStrs == { PyStr(FeedValue(d)) : d \in fed }

\* C2, as stated: every sample set has at most 10 elements, and once the
\* path has been fed more than 10 distinct scalar values its sample set has
\* exactly 10 elements.
C2_SampleBoundAsStated ==
    /\ \A p \in DOMAIN schema_structure :
          Cardinality(schema_structure[p].samples) <= max_unique_samples
    /\ Cardinality(fed) > max_unique_samples =>
          Cardinality(schema_structure[WalkTarget].samples)
              = max_unique_samples

\* C2, amended: every sample set has at most 10 elements, and once the path
\* has been fed scalar values with more than 10 distinct string
\* representations its sample set has exactly 10 elements (the int 0 and
\* the str "0" are distinct values with one representation).
C2_SampleBound ==
    /\ \A p \in DOMAIN schema_structure :
          Cardinality(schema_structure[p].samples) <= max_unique_samples
    /\ Cardinality(FedStrs) > max_unique_samples =>
          Cardinality(schema_structure[WalkTarget].samples)
              = max_unique_samples

C2_Witness ==
    /\ Cardinality(FedStrs) > max_unique_samples
    /\ Cardinality(schema_structure[WalkTarget].samples) = max_unique_samples

\* C3: once a registry entry exists, no later call of _analyze_value
\* changes its type (or removes it), whatever the value walked.
C3_TypeFixed ==
    [][\A p \in DOMAIN schema_structure :
          /\ p \in DOMAIN schema_structure'
          /\ schema_structure'[p].type = schema_structure[p].type]_vars

\* An entry created by an int, later walked with a str, a list and a dict.
C3_Witness ==
    /\ WalkTarget \in DOMAIN schema_structure
    /\ schema_structure[WalkTarget].type = "integer"
    /\ << "str", 1 >> \in fed
    /\ ItemPath(WalkTarget) \in DOMAIN schema_structure
    /\ ChildPath(WalkTarget, k_k) \in DOMAIN schema_structure

\* The records analyze_json walks.
WalkedRecords ==
    IF json_data.cls = "list" THEN FirstRecords(json_data)
    ELSE IF json_data.cls = "dict" /\ Len(json_data.kv) > 0
    THEN << FirstValue(json_data) >>
    ELSE << >>

\* A structural position is the sequence of steps from the root of the
\* record: << "key", k >> into the value of key k, << "item", <<>> >> into an
\* element of a list.  After date normalization a date-like key stands as
\* its token at the depth of its step.
KeyStep(pos, key) ==
    LET det == _detect_date_pattern(key)
        depth == Cardinality({ i \in 1..Len(pos) : pos[i][1] = "key" })
    IN << "key", IF det.is_date THEN DateKey(det.pattern, depth) ELSE key >>

ItemStep == << "item", << >> >>

\* The visits of the walker below value: << position, registry path >>.
RECURSIVE Visits(_, _, _)
Visits(value, pos, path) ==
    LET normalized_path == _normalize_path(path)
        here == { << pos, normalized_path >> }
    IN IF value.cls = "dict"
       THEN here \cup
            UNION { Visits(value.kv[i][2],
                           Append(pos, KeyStep(pos, value.kv[i][1])),
                           ChildPath(path, value.kv[i][1]))
                    : i \in 1..Len(value.kv) }
       ELSE IF value.cls = "list"
       THEN here \cup
            UNION { Visits(ListDescent(value)[i], Append(pos, ItemStep),
                           ItemPath(normalized_path))
                    : i \in 1..Len(ListDescent(value)) }
       ELSE here

\* C4: two values walked from one record are registered under the same
\* path if and only if they occupy the same position after date
\* normalization.
C4_PathIdentity ==
    Walked =>
        \A r \in 1..Len(WalkedRecords) :
            \A v, w \in Visits(WalkedRecords[r], << >>, << >>) :
                (v[2] = w[2]) <=> (v[1] = w[1])

\* A node of the tree: a scalar node {type, examples?}, an object node
\* {type: "object", properties: name -> node} or an array node
\* {type: "array", items: node}.
RECURSIVE IsNode(_)
IsNode(n) ==
    /\ k_type \in DOMAIN n
    /\ \/ DOMAIN n \subseteq {k_type, k_examples}
       \/ /\ DOMAIN n = {k_type, k_properties}
          /\ n[k_type] = "object"
          /\ \A k \in DOMAIN n[k_properties] : IsNode(n[k_properties][k])
       \/ /\ DOMAIN n = {k_type, k_items}
          /\ n[k_type] = "array"
          /\ IsNode(n[k_items])

\* C5: every node of the built tree has one of the three node shapes; the
\* items of an array node is a node carrying a type.
C5_NodeShapes ==
    pc = "built" =>
        \A k \in DOMAIN nested_schema : IsNode(nested_schema[k])

\* C6: analyze_json followed by _build_nested_schema raises no error on
\* any JSON document.
C6_NoRaise == raised = "none"

\* C7: when the registry holds two paths a.b and a.c, the built tree has
\* one object node for a whose properties contain both b and c.
C7_TreeMerge ==
    pc = "built" =>
        \A p, q \in DOMAIN schema_structure :
            LET pp == Split(p, ".")
                qq == Split(q, ".")
            IN (/\ Len(pp) = 2 /\ Len(qq) = 2
                /\ pp[1] = qq[1] /\ pp[2] # qq[2]
                /\ \A part \in {pp[1], pp[2], qq[2]} :
                      ~EndsWith(part, ArrayMarker)) =>
                 /\ pp[1] \in DOMAIN nested_schema
                 /\ nested_schema[pp[1]][k_type] = "object"
                 /\ k_properties \in DOMAIN nested_schema[pp[1]]
                 /\ {pp[2], qq[2]} \subseteq
                        DOMAIN nested_schema[pp[1]][k_properties]

\* The first record of a top-level list has the field f.
FirstRecordHas(f) ==
    /\ json_data.cls = "list"
    /\ Len(json_data.el) >= 1
    /\ \E i \in 1..Len(json_data.el[1].kv) : json_data.el[1].kv[i] = f

\* value with every list in it cut to its first element.
RECURSIVE FirstElementsOnly(_)
FirstElementsOnly(value) ==
    IF value.cls = "list"
    THEN JList([i \in 1..(IF Len(value.el) > 0 THEN 1 ELSE 0) |->
                  FirstElementsOnly(value.el[i])])
    ELSE IF value.cls = "dict"
    THEN JDict([i \in 1..Len(value.kv) |->
                  << value.kv[i][1], FirstElementsOnly(value.kv[i][2]) >>])
    ELSE value

ItemsEntryPath == ItemPath(k_items)

\* C8: of a list the walker visits element 0 only, at path p[]: the
\* registry is the one of the document with every list cut to its first
\* element.  For the record {"items": [1, 2, 3]} the registry holds `items`
\* (array) and `items[]` (integer, sample "1" only), and the tree records
\* `items` as an array whose items are integer with example "1".
C8_ArrayPolicy ==
    /\ Walked =>
          schema_structure
              = analyze_json(EmptyDict, FirstElementsOnly(json_data)).reg
    /\ (Walked /\ FirstRecordHas(f_items)) =>
          /\ {k_items, ItemsEntryPath} \subseteq DOMAIN schema_structure
          /\ schema_structure[k_items] = [type |-> "array", samples |-> {}]
          /\ schema_structure[ItemsEntryPath]
                = [type |-> "integer", samples |-> { << "1" >> }]
    /\ (pc = "built" /\ FirstRecordHas(f_items)) =>
          /\ k_items \in DOMAIN nested_schema
          /\ nested_schema[k_items]
                = (k_type :> "array") @@ (k_items :> IdNode)

C8_Witness ==
    /\ pc = "built"
    /\ FirstRecordHas(f_items)
    /\ k_items \in DOMAIN nested_schema

\* C9: analyze_json walks one record, the first element of a list or the
\* first value of a mapping: the registry is the one of walking that record
\* alone, and no path of a later record of the list is in the registry or
\* in the tree.
C9_SingleRecord ==
    /\ (Walked /\ json_data.cls = "list" /\ Len(json_data.el) >= 1) =>
          /\ schema_structure
                = _analyze_value(EmptyDict, << >>, json_data.el[1])
          /\ k_other \notin DOMAIN schema_structure
          /\ pc = "built" => k_other \notin DOMAIN nested_schema
    /\ (Walked /\ json_data.cls = "dict") =>
          schema_structure
              = _analyze_value(EmptyDict, << >>, json_data.kv[1][2])

\* A list of two records of different shapes, walked and built.
C9_Witness ==
    /\ pc = "built"
    /\ json_data.cls = "list"
    /\ Len(json_data.el) = 2
    /\ json_data.el[1] = JDict(<< f_user >>)
    /\ k_user \in DOMAIN nested_schema

MatchesDay1 == << "m", "a", "t", "c", "h", "e", "s", ".", "2", "0", "2", "1", "-", "1", "1", "-", "0", "8" >>

MatchesDay2 == << "m", "a", "t", "c", "h", "e", "s", ".", "2", "0", "2", "1", "-", "1", "1", "-", "0", "9" >>

MatchesToken == << "m", "a", "t", "c", "h", "e", "s", ".", "y", "y", "y", "y", "-", "m", "m", "-", "d", "d", "_", "1" >>

\* C10: walking {"2021-11-08": 3, "2021-11-09": 5} at path `matches`
\* registers both values under the one path matches.yyyy-mm-dd_1, whose
\* type is integer; neither raw path is a registry path.
C10_DateCollapse ==
    (Walked /\ FirstRecordHas(f_matches)) =>
        /\ _normalize_path(MatchesDay1) = MatchesToken
        /\ _normalize_path(MatchesDay2) = MatchesToken
        /\ MatchesToken \in DOMAIN schema_structure
        /\ schema_structure[MatchesToken]
              = [type |-> "integer", samples |-> { << "3" >>, << "5" >> }]
        /\ MatchesDay1 \notin DOMAIN schema_structure
        /\ MatchesDay2 \notin DOMAIN schema_structure

C10_Witness ==
    /\ pc = "analyzed"
    /\ FirstRecordHas(f_matches)
    /\ MatchesToken \in DOMAIN schema_structure

\* A date segment and its tokens at depth 0 and depth 1.
k_day == Segments[1]

DayToken0 == << "y", "y", "y", "y", "-", "m", "m", "-", "d", "d", "_", "0" >>

DayToken1 == << "y", "y", "y", "y", "-", "m", "m", "-", "d", "d", "_", "1" >>

\* C11: _normalize_path preserves the number of segments, passes every
\* segment that is not date-like through unchanged, and replaces a date-like
\* segment by a token that depends on its depth: the same raw date at two
\* depths of one path yields two different tokens.
C11_DepthDistinct ==
    pc # "start" =>
        LET raw == Split(arg_path, ".")
            out == Split(ret_path, ".")
        IN /\ Len(out) = Len(raw)
           /\ \A i \in 1..Len(raw) :
                 IF _detect_date_pattern(raw[i]).is_date
                 THEN /\ out[i] # raw[i]
                      /\ \A j \in 1..Len(raw) :
                            (j # i /\ raw[j] = raw[i]) => out[j] # out[i]
                 ELSE out[i] = raw[i]

\* The path "2021-11-08.2021-11-08" normalized.
C11_Witness ==
    /\ pc = "normalized"
    /\ arg_path = k_day \o << "." >> \o k_day
    /\ ret_path = DayToken0 \o << "." >> \o DayToken1

\* C12: normalizing what _normalize_path returned changes nothing, and every
\* key of the registry is a fixed point of _normalize_path, the keys built
\* by appending `[]` to a normalized path included.
C12_Idempotent ==
    /\ pc # "start" => _normalize_path(ret_path) = ret_path
    /\ \A k \in DOMAIN schema_structure : _normalize_path(k) = k

\* A dict with a date key walked at the path "2021-11-08": the registry holds
\* the path of the key and the path of the elements of its list.
C12_Witness ==
    /\ pc = "analyzed"
    /\ arg_path = k_day
    /\ ret_path = DayToken0
    /\ (DayToken0 \o << "." >> \o DayToken1) \in DOMAIN schema_structure
    /\ ItemPath(DayToken0 \o << "." >> \o DayToken1)
          \in DOMAIN schema_structure

\* The tag of each runtime class of a JSON value.
ShapeTag(value) ==
    CASE value.cls = "NoneType" -> "null"
      [] value.cls = "bool" -> "boolean"
      [] value.cls = "int" -> "integer"
      [] value.cls = "float" -> "float"
      [] value.cls = "str" -> "string"
      [] value.cls = "list" -> "array"
      [] value.cls = "dict" -> "object"

\* C13: _get_type_name returns a tag for every JSON value, determined by the
\* value's shape alone: null for None, boolean for every bool (never
\* integer), integer for every int, float, string, array for a list and
\* object for a mapping.
C13_Classifier ==
    pc = "classified" =>
        /\ ret_type = ShapeTag(arg_value)
        /\ (arg_value.cls = "bool" => ret_type # "integer")
        /\ (arg_value \in {JInt(0), JInt(42)} => ret_type = "integer")

\* True classified.
C13_Witness ==
    /\ pc = "classified"
    /\ arg_value = JBool(TRUE)
    /\ ret_type = "boolean"

\* The string representations of the scalars of seq, each once, in the
\* order of its first occurrence, after those of acc.
RECURSIVE DistinctStrs(_, _, _)
DistinctStrs(seq, k, acc) ==
    IF k > Len(seq) THEN acc
    ELSE LET str == PyStr(FeedValue(seq[k]))
         IN DistinctStrs(seq, k + 1,
               IF \E j \in 1..Len(acc) : acc[j] = str THEN acc
               ELSE Append(acc, str))

\* The first n elements of seq, as a set.
FirstOf(seq, n) == { seq[j] : j \in 1..(IF Len(seq) < n THEN Len(seq) ELSE n) }

\* No call removes an entry or a sample of the registry.
SamplesGrow ==
    \A p \in DOMAIN schema_structure :
        /\ p \in DOMAIN schema_structure'
        /\ schema_structure[p].samples \subseteq schema_structure'[p].samples

\* C14, as stated: a sample set only ever grows, and after any sequence of
\* walks it equals the string representations of the first (at most 10)
\* distinct scalar values walked at the path.
C14_FirstSamplesAsStated ==
    /\ [][SamplesGrow]_vars
    /\ [](Walked =>
            schema_structure[WalkTarget].samples =
                { PyStr(FeedValue(d)) : d \in FirstOf(fed_order, max_unique_samples) })

\* C14, amended: a sample set only ever grows, and after any sequence of
\* walks it equals the first (at most 10) distinct string representations
\* of the scalar values walked at the path, in traversal order (the int 0
\* and the str "0" are two values with one representation).
C14_FirstSamples ==
    /\ [][SamplesGrow]_vars
    /\ [](Walked =>
            schema_structure[WalkTarget].samples =
                FirstOf(DistinctStrs(fed_order, 1, << >>), max_unique_samples))

\* Eleven representations walked: the last one is not a sample.
C14_Witness ==
    /\ Walked
    /\ Len(DistinctStrs(fed_order, 1, << >>)) > max_unique_samples
    /\ Cardinality(schema_structure[WalkTarget].samples) = max_unique_samples
    /\ PyStr(FeedValue(fed_order[Len(fed_order)]))
          \notin schema_structure[WalkTarget].samples

\* The mapping of names to nodes below node n: its properties.  (An `items`
\* that holds no type is read as such a mapping itself.)
Below(n) == IF k_properties \in DOMAIN n THEN n[k_properties] ELSE n

\* The type of the node reached from the mapping d of names to nodes along
\* the segments parts[k], parts[k + 1], ...: a segment `name` leads to the
\* node of that name, a segment `name[]` to the items of that node.  "": no
\* such node, or a node without type.
RECURSIVE TypeAt(_, _, _)
TypeAt(d, parts, k) ==
    LET seg == parts[k]
        arr == EndsWith(seg, ArrayMarker)
        name == IF arr THEN SubSeq(seg, 1, Len(seg) - Len(ArrayMarker)) ELSE seg
    IN IF name \notin DOMAIN d THEN ""
       ELSE IF arr /\ k_items \notin DOMAIN d[name] THEN ""
       ELSE LET node == IF arr THEN d[name][k_items] ELSE d[name]
            IN IF k = Len(parts)
               THEN (IF k_type \in DOMAIN node THEN node[k_type] ELSE "")
               ELSE TypeAt(Below(node), parts, k + 1)

\* C15: after the walk of one record, every non-empty path of the registry
\* has a node in the built tree, reachable along the path's segments and
\* carrying the entry's type; so the fields c and d of a.b are both under
\* a.b.
C15_NoEntryLost ==
    pc = "built" =>
        \A p \in DOMAIN schema_structure :
            p # << >> =>
                TypeAt(nested_schema, Split(p, "."), 1)
                    = schema_structure[p].type

\* No object or array node among node n and the nodes below it carries
\* examples.
RECURSIVE NoCompositeExamples(_)
NoCompositeExamples(n) ==
    /\ (k_type \in DOMAIN n /\ n[k_type] \in {"object", "array"})
           => k_examples \notin DOMAIN n
    /\ k_properties \in DOMAIN n =>
           \A k \in DOMAIN n[k_properties] :
               NoCompositeExamples(n[k_properties][k])
    /\ k_items \in DOMAIN n =>
           IF k_type \in DOMAIN n[k_items]
           THEN NoCompositeExamples(n[k_items])
           ELSE \A k \in DOMAIN n[k_items] :
                    NoCompositeExamples(n[k_items][k])

\* C16: in every state of the registry an entry of type object or array has
\* no samples, and no object or array node of the built tree carries
\* examples, also when the values walked at two date keys that collapse onto
\* one path are first a dict and later a scalar.
C16_CompositeNoSamples ==
    /\ \A p \in DOMAIN schema_structure :
          schema_structure[p].type \in {"object", "array"}
              => schema_structure[p].samples = {}
    /\ pc = "built" =>
          \A k \in DOMAIN nested_schema : NoCompositeExamples(nested_schema[k])

====
